---- MODULE Spec2Model ----
(***************************************************************************)
(* Model of the track generator (src/src/index.ts, first variant, lines    *)
(* 1-455): the Track Builder makeTrack with its backtracking loop, the     *)
(* progress channel, and the validation predicates it calls.               *)
(*                                                                         *)
(* The geometry kernel (bezier-js) is not part of the repository.  A curve *)
(* is abstracted to what the code reads from it: its end points (get(0),   *)
(* get(1)), whether its interior crosses the contested area of the plane   *)
(* (two different curves intersect away from their ends iff both cross it) *)
(* and whether it crosses itself.                                          *)
(***************************************************************************)
EXTENDS Integers, Sequences, FiniteSets, TLC

(* ------------------------------ bounds --------------------------------- *)

\* largest number of sections a call may have to build
MaxSections == 2
\* abscissae 0 .. MaxCoordinate of the points of the track model
MaxCoordinate == 1
\* longest list of curves handed to hasGapsInOutline
MaxCurves == 2
\* coordinates 0 .. MaxGapCoordinate of the end points of those curves
MaxGapCoordinate == 1
\* longest outline the kernel hands to getRandomTrackSection
MaxOutline == 4

\* most existing sections isMostlyEnclosed is called with
MaxEnclosing == 2

\* distanceAlongTangent is drawn from 0 .. MaxDistance
MaxDistance == 2

\* clicks on the page, each starting a call of makeTrack
MaxClicks == 2
\* most snapshots one call of makeTrack emits before it returns
MaxSnapshots == 4

(* ------------------------- program constants --------------------------- *)

\* requestedSections is a JavaScript number: the model takes the multiples of
\* 1 / Denominator, so that 1.5 can be asked for
Denominator == 2

maximumTriesPerSection == 3

\* 0.0001; the coordinates of the outline model are multiples of 0.0001
maximumAllowedOutlineGap == 1

\* the values a slot of the JavaScript array triesBySection can hold besides
\* a count: a hole reads as undefined, undefined + 1 is NaN
Undefined == -1
NaN == -2

\* line 240
numberOfLines == 10
\* line 271: the ratio 0.6, in tenths
mostlyEnclosedTenths == 6

(* ------------------------------ geometry ------------------------------- *)

Point(x, y) == [x |-> x, y |-> y]

TrackPoints == { Point(x, 0) : x \in 0..MaxCoordinate }

\* a Bezier object as the code uses it
Curve(p0, p3, crossing, loops) ==
    [p0 |-> p0, p3 |-> p3, crossing |-> crossing, loops |-> loops]

\* Bezier.get(t) for the two parameters the code passes
get(curve, t) == IF t = 0 THEN curve.p0 ELSE curve.p3

selfintersects(curve) == curve.loops

\* overlaps() and intersects() with one of the two parameters away from the ends
intersectsAwayFromEnds(curve1, curve2) ==
    curve1.crossing /\ curve2.crossing

hasIntersectionOtherThanAtCurveEnds(curve1, curve2, sameObject) ==
    IF sameObject
    THEN selfintersects(curve1)
    ELSE intersectsAwayFromEnds(curve1, curve2)

hasAnySelfIntersections(curves, existingCurves) ==
    \E firstCurveIndex \in 1..(Len(curves) - 1) :
        \/ \E secondCurveIndex \in firstCurveIndex..Len(curves) :
              hasIntersectionOtherThanAtCurveEnds(
                  curves[firstCurveIndex], curves[secondCurveIndex],
                  firstCurveIndex = secondCurveIndex)
        \/ \E existingCurveIndex \in 1..Len(existingCurves) :
              hasIntersectionOtherThanAtCurveEnds(
                  curves[firstCurveIndex], existingCurves[existingCurveIndex],
                  FALSE)

sectionCurves(section) ==
    <<section.center>> \o section.leftEdge \o section.rightEdge

RECURSIVE getAllCurves(_)
getAllCurves(track) ==
    IF track = <<>> THEN <<>>
    ELSE sectionCurves(Head(track)) \o getAllCurves(Tail(track))

startOfCenterLine(section) == get(section.center, 0)

endOfCenterLine(section) == get(section.center, 1)

(* ---------------------------- vector math ------------------------------ *)

add(point1, point2) == Point(point1.x + point2.x, point1.y + point2.y)

invert(point) == Point(0 - point.x, 0 - point.y)

\* getLength is a square root; the model keeps its square
getLengthSquared(point) == point.x * point.x + point.y * point.y

distanceSquared(point1, point2) == getLengthSquared(add(point1, invert(point2)))

\* distance(point1, point2) > limit, for a limit >= 0
distanceExceeds(point1, point2, limit) ==
    distanceSquared(point1, point2) > limit * limit

(* ------------------------- outline continuity -------------------------- *)

hasGapsInOutlineWithoutWraparound(outline) ==
    IF outline = <<>> THEN "TypeError"
    ELSE IF \E i \in 2..Len(outline) :
                distanceExceeds(get(outline[i - 1], 1), get(outline[i], 0),
                                maximumAllowedOutlineGap)
         THEN "true"
         ELSE "false"

\* the value returned, or the TypeError of reading curves[0].get on no curve
hasGapsInOutline(outline) ==
    IF outline = <<>> THEN "TypeError"
    ELSE IF \E i \in 2..Len(outline) :
                distanceExceeds(get(outline[i - 1], 1), get(outline[i], 0),
                                maximumAllowedOutlineGap)
         THEN "true"
         ELSE IF distanceExceeds(get(outline[1], 0), get(outline[Len(outline)], 1),
                                 maximumAllowedOutlineGap)
              THEN "true"
              ELSE "false"

(* -------------------------- section generator -------------------------- *)

TrackSection(center, leftEdge, rightEdge) ==
    [center |-> center, leftEdge |-> leftEdge, rightEdge |-> rightEdge]

\* line 164: a continuing section starts where its predecessor ends, a first
\* section at a random point.  previous is <<>> or <<previousSection>>.
startingPoints(previous) ==
    IF previous = <<>> THEN TrackPoints ELSE { endOfCenterLine(previous[1]) }

\* the sections one pass of getRandomTrackSection can assemble from its random
\* points (lines 163-190, 224-225); the outline is abstracted to one curve per
\* edge running from the section's start to its end, and the curves of an
\* outline do not cross themselves
randomSections(previous) ==
    { TrackSection(Curve(s, e, x[1], l),
                   << Curve(s, e, x[2], FALSE) >>,
                   << Curve(s, e, x[3], FALSE) >>) :
        s \in startingPoints(previous), e \in TrackPoints,
        x \in [1..3 -> BOOLEAN], l \in BOOLEAN }

\* a pass is retried unless the section passes the checks of lines 184 and 227
passesSectionChecks(section) ==
    /\ ~selfintersects(section.center)
    /\ ~hasAnySelfIntersections(sectionCurves(section), <<>>)

\* every section getRandomTrackSection can return after its retries
getRandomTrackSection(previous) ==
    { section \in randomSections(previous) : passesSectionChecks(section) }

(* ------------------------------ makeTrack ------------------------------ *)

VARIABLES
    pc,                \* where the call of makeTrack stands
    requestedSections, \* numerator of the requested count, over Denominator
    sections,          \* the array `sections`
    triesBySection,    \* the array `triesBySection`, indexes -1 .. MaxSections
    nextSection,       \* <<>> or <<the candidate of the current attempt>>
    emittedNow,        \* payloads put on 'sectionsSoFar' by the last step
    lastEmitted,       \* <<>> or <<the last payload put on 'sectionsSoFar'>>
    liveEmitted,       \* <<>> or <<what `sections` held when the array itself
                       \* was last put on 'sectionsSoFar'>>
    candidatesTried,   \* per index, the candidates generated for it since the
                       \* section before it was appended
    curves,            \* the argument of a call of hasGapsInOutline
    gapResult,         \* what that call did
    args,              \* the inputs of a call of one of the other functions
    result,            \* what that call did
    listeners,         \* the listeners of 'sectionsSoFar' on the emitter
    canvas,            \* <<>> or <<what the canvas shows>>
    calls              \* the calls of makeTrack made by the browser page

vars == << pc, requestedSections, sections, triesBySection, nextSection,
           emittedNow, lastEmitted, liveEmitted, candidatesTried, curves,
           gapResult, args, result, listeners, canvas, calls >>

\* the variables of the functions called on their own and of the page
gapVars == << curves, gapResult, args, result, listeners, canvas, calls >>

\* the requested counts tried: -1 .. MaxSections in steps of 1 / Denominator
RequestedCounts == (0 - Denominator)..(MaxSections * Denominator)

isPositiveInteger(requested) ==
    requested > 0 /\ requested % Denominator = 0

loopContinuesOffByOne(length, requested) == length * Denominator <= requested

\* line 112: sections.length < requestedSections
loopContinues(length, requested) == length * Denominator < requested

\* a payload is the array object handed to emit: the live array `sections`
\* itself (lines 109, 122) or a fresh array (line 130); track is its content
\* at the time of the emit
Payload(live, track) == [live |-> live, track |-> track]

\* what an observer reads from a payload it kept
view(payload, liveSections) ==
    IF payload.live THEN liveSections ELSE payload.track

\* line 109 and line 122: emitter.emit('sectionsSoFar', sections)
emitSections(track) == Payload(TRUE, track)

emitSpeculativeWithoutCandidate(track, candidate) == Payload(FALSE, track)

emitSpeculativeCandidateFirst(track, candidate) ==
    Payload(FALSE, << candidate >> \o track)

\* line 130: emitter.emit('sectionsSoFar', [...sections, nextSection])
emitSpeculative(track, candidate) == Payload(FALSE, Append(track, candidate))

\* JavaScript's x > maximum on a slot: false for undefined and NaN
exceeds(tries, maximum) == tries >= 0 /\ tries > maximum

plusOneWithoutDefault(tries) == IF tries < 0 THEN NaN ELSE tries + 1

\* (x || 0) + 1
orZeroPlusOne(tries) == IF tries <= 0 THEN 1 ELSE tries + 1

\* x += 1
plusOne(tries) == IF tries < 0 THEN NaN ELSE tries + 1

Indexes == (0 - 1)..(MaxSections + 1)

\* sections.pop(): no effect on an empty array
pop(track) == IF track = <<>> THEN <<>> ELSE SubSeq(track, 1, Len(track) - 1)

\* sections[currentSectionIndex - 1], as <<>> when that slot is undefined
previousSection(track) == IF track = <<>> THEN <<>> ELSE << track[Len(track)] >>

\* emitter.emit('sectionsSoFar', payload): the listeners get the payload
Emit(payload) ==
    /\ emittedNow' = << payload >>
    /\ lastEmitted' = << payload >>
    /\ liveEmitted' = IF payload.live THEN << payload.track >> ELSE liveEmitted

Init ==
    /\ pc = "idle"
    /\ requestedSections = 0
    /\ sections = <<>>
    /\ triesBySection = [i \in Indexes |-> Undefined]
    /\ nextSection = <<>>
    /\ emittedNow = <<>>
    /\ lastEmitted = <<>>
    /\ liveEmitted = <<>>
    /\ candidatesTried = [i \in Indexes |-> 0]
    /\ curves = <<>>
    /\ gapResult = "none"
    /\ args = <<>>
    /\ result = <<>>
    /\ listeners = <<>>
    /\ canvas = <<>>
    /\ calls = <<>>

\* lines 98-110: the call up to its first await
MakeTrack ==
    /\ pc = "idle"
    /\ \E requested \in RequestedCounts, first \in getRandomTrackSection(<<>>) :
          /\ requestedSections' = requested
          /\ sections' = << first >>
          /\ triesBySection' = [i \in Indexes |-> IF i = 0 THEN 1 ELSE Undefined]
          /\ Emit(emitSections(sections'))
    /\ nextSection' = <<>>
    /\ UNCHANGED << candidatesTried, gapVars >>
    /\ pc' = "loop"

\* the backtracking branch without line 119
BacktrackWithoutReset ==
    /\ pc = "loop"
    /\ loopContinues(Len(sections), requestedSections)
    /\ LET currentSectionIndex == Len(sections) IN
          /\ exceeds(triesBySection[currentSectionIndex], maximumTriesPerSection)
          /\ sections' = pop(sections)
          /\ triesBySection' =
                [triesBySection EXCEPT ![currentSectionIndex - 1] = plusOne(@)]
          /\ Emit(emitSections(sections'))
          /\ candidatesTried' = [candidatesTried EXCEPT ![currentSectionIndex] = 0]
    /\ UNCHANGED << requestedSections, nextSection, gapVars >>
    /\ pc' = "loop"

\* lines 112-126: the backtracking branch, up to its await
Backtrack ==
    /\ pc = "loop"
    /\ loopContinues(Len(sections), requestedSections)
    /\ LET currentSectionIndex == Len(sections) IN
          /\ exceeds(triesBySection[currentSectionIndex], maximumTriesPerSection)
          /\ sections' = pop(sections)
          /\ triesBySection' =
                [triesBySection EXCEPT
                    ![currentSectionIndex] = 0,
                    ![currentSectionIndex - 1] = plusOne(@)]
          /\ Emit(emitSections(sections'))
          /\ candidatesTried' = [candidatesTried EXCEPT ![currentSectionIndex] = 0]
    /\ UNCHANGED << requestedSections, nextSection, gapVars >>
    /\ pc' = "loop"

\* lines 112-132: a candidate is generated and shown, up to the await
Generate ==
    /\ pc = "loop"
    /\ loopContinues(Len(sections), requestedSections)
    /\ ~exceeds(triesBySection[Len(sections)], maximumTriesPerSection)
    /\ \E candidate \in getRandomTrackSection(previousSection(sections)) :
          /\ nextSection' = << candidate >>
          /\ Emit(emitSpeculative(sections, candidate))
    /\ candidatesTried' = [candidatesTried EXCEPT ![Len(sections)] = @ + 1]
    /\ UNCHANGED << requestedSections, sections, triesBySection, gapVars >>
    /\ pc' = "check"

\* line 137
intersectsTrack(candidate, track) ==
    hasAnySelfIntersections(getAllCurves(<< candidate >>), getAllCurves(track))

\* lines 134-140: the attempt is counted and the candidate is discarded
Reject ==
    /\ pc = "check"
    /\ triesBySection' =
          [triesBySection EXCEPT ![Len(sections)] = orZeroPlusOne(@)]
    /\ intersectsTrack(nextSection[1], sections)
    /\ nextSection' = <<>>
    /\ emittedNow' = <<>>
    /\ UNCHANGED << requestedSections, sections, lastEmitted, liveEmitted,
                    candidatesTried, gapVars >>
    /\ pc' = "loop"

\* lines 134-142: the attempt is counted and the candidate is appended
Accept ==
    /\ pc = "check"
    /\ triesBySection' =
          [triesBySection EXCEPT ![Len(sections)] = orZeroPlusOne(@)]
    /\ ~intersectsTrack(nextSection[1], sections)
    /\ sections' = Append(sections, nextSection[1])
    /\ nextSection' = <<>>
    /\ emittedNow' = <<>>
    /\ candidatesTried' = [candidatesTried EXCEPT ![Len(sections) + 1] = 0]
    /\ UNCHANGED << requestedSections, lastEmitted, liveEmitted, gapVars >>
    /\ pc' = "loop"

\* lines 112 and 145: the loop ends and the array is returned
Return ==
    /\ pc = "loop"
    /\ ~loopContinues(Len(sections), requestedSections)
    /\ emittedNow' = <<>>
    /\ UNCHANGED << requestedSections, sections, triesBySection, nextSection,
                    lastEmitted, liveEmitted, candidatesTried, gapVars >>
    /\ pc' = "done"

Next ==
    \/ MakeTrack
    \/ Backtrack
    \/ Generate
    \/ Reject
    \/ Accept
    \/ Return

Spec == Init /\ [][Next]_vars
\* every run goes on while a step of the call is left: the event loop runs
\* the timer of each await
LiveSpec == Init /\ [][Next]_vars /\ WF_vars(Next)

(* -------------------- hasGapsInOutline on its own ---------------------- *)

GapPoints ==
    { Point(x, y) : x \in 0..MaxGapCoordinate, y \in 0..MaxGapCoordinate }

GapCurves == { Curve(p0, p3, FALSE, FALSE) : p0 \in GapPoints, p3 \in GapPoints }

GapInputs == UNION { [1..n -> GapCurves] : n \in 0..MaxCurves }

GapInit ==
    /\ pc = "hasGapsInOutline"
    /\ requestedSections = 0
    /\ sections = <<>>
    /\ triesBySection = [i \in Indexes |-> Undefined]
    /\ nextSection = <<>>
    /\ emittedNow = <<>>
    /\ lastEmitted = <<>>
    /\ liveEmitted = <<>>
    /\ candidatesTried = [i \in Indexes |-> 0]
    /\ curves \in GapInputs
    /\ gapResult = "none"
    /\ args = <<>>
    /\ result = <<>>
    /\ listeners = <<>>
    /\ canvas = <<>>
    /\ calls = <<>>

\* lines 310-328
HasGapsInOutline ==
    /\ pc = "hasGapsInOutline"
    /\ gapResult' = hasGapsInOutline(curves)
    /\ pc' = "returned"
    /\ UNCHANGED << requestedSections, sections, triesBySection, nextSection,
                    emittedNow, lastEmitted, liveEmitted, candidatesTried,
                    curves, args, result, listeners, canvas, calls >>

GapNext == HasGapsInOutline

GapSpec == GapInit /\ [][GapNext]_vars

(* ---------------- getRandomTrackSection, pass by pass ------------------ *)

\* the state of makeTrack while another function is called on its own
builderIdle ==
    /\ requestedSections = 0
    /\ sections = <<>>
    /\ triesBySection = [i \in Indexes |-> Undefined]
    /\ nextSection = <<>>
    /\ emittedNow = <<>>
    /\ lastEmitted = <<>>
    /\ liveEmitted = <<>>
    /\ candidatesTried = [i \in Indexes |-> 0]
    /\ curves = <<>>
    /\ gapResult = "none"
    /\ listeners = <<>>
    /\ canvas = <<>>
    /\ calls = <<>>

builderVars ==
    << requestedSections, sections, triesBySection, nextSection, emittedNow,
       lastEmitted, liveEmitted, candidatesTried, curves, gapResult,
       listeners, canvas, calls >>

\* an outline as the kernel returns it: its curves in order, each with its
\* identity and with what isProbablyEndCap says of it
Outlines ==
    UNION { { [i \in 1..n |-> [id |-> i, cap |-> c[i]]] : c \in [1..n -> BOOLEAN] } :
            n \in 0..MaxOutline }

\* what one pass draws at random and what the kernel and the predicates
\* answer about it
Passes ==
    [ mostlyEnclosed : BOOLEAN,   \* isMostlyEnclosed(endingPoint, ...), line 171
      centerLoops    : BOOLEAN,   \* centerLine.selfintersects(...), line 184
      outlineThrows  : BOOLEAN,   \* centerLine.outline(...) throws, line 190
      outline        : Outlines,  \* ... or returns these curves
      capTooClose    : BOOLEAN,   \* endpointIsTooCloseToCurve of a cap, line 206
      gaps           : BOOLEAN,   \* hasGapsInOutline(outlineCurves), line 212
      edgesIntersect : BOOLEAN ]  \* hasAnySelfIntersections(...), line 227

\* lines 191-197: the indexes (from 0) of the probable end caps, in order
RECURSIVE endCapIndexesFrom(_, _)
endCapIndexesFrom(outline, index) ==
    IF index >= Len(outline) THEN <<>>
    ELSE (IF outline[index + 1].cap THEN << index >> ELSE <<>>)
            \o endCapIndexesFrom(outline, index + 1)

endCapIndexes(outline) == endCapIndexesFrom(outline, 0)

sliceKeepingStart(array, start, end) == SubSeq(array, start, end)

\* Array.prototype.slice(start, end), indexes from 0, end excluded
slice(array, start, end) == SubSeq(array, start + 1, end)

firstEndCapMisplacedOneBased(indexes) == indexes[1] # 1

\* line 220: endCapIndexes[0] !== 0
firstEndCapMisplaced(indexes) == indexes[1] # 0

Retried == [outcome |-> "retry", leftEdge |-> <<>>, rightEdge |-> <<>>]

Thrown(error) == [outcome |-> error, leftEdge |-> <<>>, rightEdge |-> <<>>]

Returned(leftEdge, rightEdge) ==
    [outcome |-> "returned", leftEdge |-> leftEdge, rightEdge |-> rightEdge]

\* lines 200-237: what a pass does with the outline it got
sectionFromOutline(pass) ==
    LET indexes == endCapIndexes(pass.outline) IN
    IF Len(indexes) # 2 THEN Retried
    ELSE IF pass.capTooClose THEN Retried
    ELSE IF pass.gaps THEN Retried
    ELSE IF firstEndCapMisplaced(indexes) THEN Thrown("assumptions incorrect")
    ELSE LET rightEdge == slice(pass.outline, indexes[1] + 1, indexes[2])
             leftEdge == slice(pass.outline, indexes[2] + 1, Len(pass.outline))
         IN  IF pass.edgesIntersect THEN Retried
             ELSE Returned(leftEdge, rightEdge)

\* lines 171-237: one pass of getRandomTrackSection
sectionPass(pass) ==
    IF pass.mostlyEnclosed THEN Retried
    ELSE IF pass.centerLoops THEN Retried
    ELSE IF pass.outlineThrows THEN Thrown("cannot scale this curve")
    ELSE sectionFromOutline(pass)

SectionInit ==
    /\ pc = "getRandomTrackSection"
    /\ builderIdle
    /\ args = <<>>
    /\ result = <<>>

\* lines 163-237: the random points are drawn and the pass runs to a retry,
\* to an error or to its return
Pass ==
    /\ pc = "getRandomTrackSection"
    /\ \E pass \in Passes :
          /\ args' = << pass >>
          /\ result' = << sectionPass(pass) >>
          /\ pc' = IF sectionPass(pass).outcome = "retry" THEN "retry"
                   ELSE IF sectionPass(pass).outcome = "returned" THEN "returned"
                   ELSE "thrown"
    /\ UNCHANGED builderVars

\* line 162: retry() calls getRandomTrackSection again with the same arguments
Retry ==
    /\ pc = "retry"
    /\ args' = <<>>
    /\ result' = <<>>
    /\ pc' = "getRandomTrackSection"
    /\ UNCHANGED builderVars

SectionNext ==
    \/ Pass
    \/ Retry

SectionSpec == SectionInit /\ [][SectionNext]_vars

(* ---------------------- isMostlyEnclosed on its own -------------------- *)

\* what isMostlyEnclosed reads of an existing center line: the rays of
\* linesInAllDirectionsFromOrigin it intersects.  Seen from the point a curve
\* covers an arc of directions, so they are `count` consecutive rays from
\* ray `first` on, around the circle.
CenterLines ==
    { [first |-> first, count |-> count] :
        first \in 1..numberOfLines, count \in 1..(numberOfLines - 1) }
        \cup { [first |-> 1, count |-> 0], [first |-> 1, count |-> numberOfLines] }

EnclosedInputs ==
    UNION { [1..existingSections -> CenterLines] :
            existingSections \in 0..MaxEnclosing }

\* line 268: centerLines[index].lineIntersects(lineTranslatedToPoint).length > 0
lineIntersects(centerLine, line) ==
    ((line - centerLine.first) % numberOfLines) < centerLine.count

\* lines 267-277: the scan of the center lines, most recent first
RECURSIVE lineIntersectsFrom(_, _, _)
lineIntersectsFrom(centerLines, line, existingCurveIndex) ==
    IF existingCurveIndex < 1 THEN FALSE
    ELSE IF lineIntersects(centerLines[existingCurveIndex], line) THEN TRUE
    ELSE lineIntersectsFrom(centerLines, line, existingCurveIndex - 1)

reachesRatio(directionsWithIntersections) ==
    directionsWithIntersections * 10 >= mostlyEnclosedTenths * numberOfLines

\* line 271: directionsWithIntersections / numberOfLines > 0.6
exceedsRatio(directionsWithIntersections) ==
    directionsWithIntersections * 10 > mostlyEnclosedTenths * numberOfLines

\* lines 260-280: the loop over the rays, from ray `line` on
RECURSIVE isMostlyEnclosedFrom(_, _, _)
isMostlyEnclosedFrom(centerLines, line, directionsWithIntersections) ==
    IF line > numberOfLines THEN FALSE
    ELSE IF lineIntersectsFrom(centerLines, line, Len(centerLines))
         THEN IF exceedsRatio(directionsWithIntersections + 1) THEN TRUE
              ELSE isMostlyEnclosedFrom(centerLines, line + 1,
                                        directionsWithIntersections + 1)
         ELSE isMostlyEnclosedFrom(centerLines, line + 1,
                                   directionsWithIntersections)

\* lines 252-281
isMostlyEnclosed(centerLines) ==
    IF Len(centerLines) = 0 THEN FALSE
    ELSE isMostlyEnclosedFrom(centerLines, 1, 0)

EnclosedInit ==
    /\ pc = "isMostlyEnclosed"
    /\ builderIdle
    /\ args \in { << centerLines >> : centerLines \in EnclosedInputs }
    /\ result = <<>>

IsMostlyEnclosed ==
    /\ pc = "isMostlyEnclosed"
    /\ result' = << isMostlyEnclosed(args[1]) >>
    /\ pc' = "returned"
    /\ UNCHANGED << builderVars, args >>

EnclosedNext == IsMostlyEnclosed

EnclosedSpec == EnclosedInit /\ [][EnclosedNext]_vars

(* ------------------ scaleLength and the tangent point ------------------ *)

\* A JavaScript number as scaleLength produces it: NaN, an infinity, or the
\* finite value  whole + numerator / sqrt(radicand).
NotANumber == [kind |-> "NaN", whole |-> 0, numerator |-> 0, radicand |-> 1]

Infinite(sign) == [kind |-> "Infinity", whole |-> 0, numerator |-> sign, radicand |-> 1]

Finite(whole, numerator, radicand) ==
    [kind |-> "finite", whole |-> whole, numerator |-> numerator, radicand |-> radicand]

sign(number) == IF number > 0 THEN 1 ELSE IF number < 0 THEN -1 ELSE 0

\* line 419: newLength / Math.sqrt(radicand), for newLength >= 0
overLength(newLength, radicand) ==
    IF radicand = 0
    THEN IF newLength = 0 THEN NotANumber ELSE Infinite(1)
    ELSE Finite(0, newLength, radicand)

\* lines 422-423: scaleFactor * coordinate
times(scaleFactor, coordinate) ==
    IF scaleFactor.kind = "NaN" THEN NotANumber
    ELSE IF scaleFactor.kind = "Infinity"
         THEN IF coordinate = 0 THEN NotANumber
              ELSE Infinite(scaleFactor.numerator * sign(coordinate))
    ELSE Finite(0, scaleFactor.numerator * coordinate, scaleFactor.radicand)

\* lines 437-438: coordinate + number
plus(coordinate, number) ==
    IF number.kind = "finite"
    THEN Finite(coordinate + number.whole, number.numerator, number.radicand)
    ELSE number

\* lines 417-425
scaleLength(point, newLength) ==
    LET scaleFactor == overLength(newLength, getLengthSquared(point))
    IN  Point(times(scaleFactor, point.x), times(scaleFactor, point.y))

\* lines 287-293, for the end point and the end tangent of the section's
\* center line and the distance drawn
randomPointAlongEndOfCenterLineTangent(endPoint, tangent, distanceAlongTangent) ==
    LET scaled == scaleLength(tangent, distanceAlongTangent)
    IN  Point(plus(endPoint.x, scaled.x), plus(endPoint.y, scaled.y))

EndPoints == { Point(x, y) : x \in 0..MaxCoordinate, y \in 0..MaxCoordinate }

\* center.derivative(1)
Tangents ==
    { Point(x, y) : x \in (0 - MaxCoordinate)..MaxCoordinate,
                    y \in (0 - MaxCoordinate)..MaxCoordinate }

VectorInit ==
    /\ pc = "randomPointAlongEndOfCenterLineTangent"
    /\ builderIdle
    /\ args \in { << endPoint, tangent >> : endPoint \in EndPoints, tangent \in Tangents }
    /\ result = <<>>

\* no statement of lines 287-293 and 417-425 throws: the call always returns
RandomPointAlongEndOfCenterLineTangent ==
    /\ pc = "randomPointAlongEndOfCenterLineTangent"
    /\ \E distanceAlongTangent \in 0..MaxDistance :
          result' = << scaleLength(args[2], distanceAlongTangent),
                       randomPointAlongEndOfCenterLineTangent(
                           args[1], args[2], distanceAlongTangent) >>
    /\ pc' = "returned"
    /\ UNCHANGED << builderVars, args >>

VectorNext == RandomPointAlongEndOfCenterLineTangent

VectorSpec == VectorInit /\ [][VectorNext]_vars

(* ------------------- hasAnySelfIntersections on its own ---------------- *)

\* the curves the predicate is tried on: what it reads of a curve is whether
\* it crosses the contested area and whether it crosses itself
IntersectCurves ==
    { Curve(Point(0, 0), Point(0, 0), crossing, loops) :
        crossing \in BOOLEAN, loops \in BOOLEAN }

CurveLists == UNION { [1..n -> IntersectCurves] : n \in 0..MaxCurves }

IntersectInit ==
    /\ pc = "hasAnySelfIntersections"
    /\ builderIdle
    /\ args \in { << newCurves, existingCurves >> :
                    newCurves \in CurveLists, existingCurves \in CurveLists }
    /\ result = <<>>

\* lines 331-352
HasAnySelfIntersections ==
    /\ pc = "hasAnySelfIntersections"
    /\ result' = << hasAnySelfIntersections(args[1], args[2]) >>
    /\ pc' = "returned"
    /\ UNCHANGED << builderVars, args >>

IntersectNext == HasAnySelfIntersections

IntersectSpec == IntersectInit /\ [][IntersectNext]_vars

(* --------------------- the page: refresh on a click -------------------- *)

\* everything but the page's own state
pageFrame ==
    << pc, requestedSections, sections, triesBySection, nextSection,
       emittedNow, lastEmitted, liveEmitted, candidatesTried, curves,
       gapResult, args, result >>

Calls == 1..MaxClicks

\* a call of makeTrack as the page sees it is "idle" (not made yet),
\* "awaiting" in one of its awaits (lines 110, 123, 132) after `emitted`
\* snapshots, or "returned"

\* what a draw puts on the canvas: a snapshot of a call, or its returned track
Snapshot(call, number) == [call |-> call, number |-> number, final |-> FALSE]

Final(call) == [call |-> call, number |-> 0, final |-> TRUE]

\* emitter.emit('sectionsSoFar', track) as seen on the canvas: every listener
\* registered on the one emitter of index.ts line 48 clears and draws
\* (browser.ts lines 191-194)
drawnByListeners(registered, shown, payload) ==
    IF registered = <<>> THEN shown ELSE << payload >>

PageInit ==
    /\ pc = "page"
    /\ requestedSections = 0
    /\ sections = <<>>
    /\ triesBySection = [i \in Indexes |-> Undefined]
    /\ nextSection = <<>>
    /\ emittedNow = <<>>
    /\ lastEmitted = <<>>
    /\ liveEmitted = <<>>
    /\ candidatesTried = [i \in Indexes |-> 0]
    /\ curves = <<>>
    /\ gapResult = "none"
    /\ args = <<>>
    /\ result = <<>>
    /\ listeners = <<>>
    /\ canvas = <<>>
    /\ calls = [call \in Calls |-> [pc |-> "idle", emitted |-> 0]]

\* browser.ts lines 205-208 and 189-196, index.ts lines 98-110: a click runs
\* refresh up to the first await of its call of makeTrack
Refresh(call) ==
    /\ calls[call].pc = "idle"
    /\ \A earlier \in 1..(call - 1) : calls[earlier].pc # "idle"
    /\ listeners' = << call >>
    /\ canvas' = drawnByListeners(listeners', canvas, Snapshot(call, 1))
    /\ calls' = [calls EXCEPT ![call] = [pc |-> "awaiting", emitted |-> 1]]
    /\ UNCHANGED pageFrame

\* index.ts lines 112-132: the call wakes up from its await, makes a loop
\* pass that emits one snapshot, and awaits again
LoopPass(call) ==
    /\ calls[call].pc = "awaiting"
    /\ calls[call].emitted < MaxSnapshots
    /\ canvas' = drawnByListeners(listeners, canvas,
                                  Snapshot(call, calls[call].emitted + 1))
    /\ calls' = [calls EXCEPT ![call].emitted = @ + 1]
    /\ UNCHANGED << pageFrame, listeners >>

\* index.ts lines 112 and 145, browser.ts lines 196-200: the call wakes up,
\* leaves its loop and returns; the refresh that awaited it clears the canvas
\* and draws the returned track
Settle(call) ==
    /\ calls[call].pc = "awaiting"
    /\ canvas' = << Final(call) >>
    /\ calls' = [calls EXCEPT ![call].pc = "returned"]
    /\ UNCHANGED << pageFrame, listeners >>

PageNext ==
    \E call \in Calls :
        \/ Refresh(call)
        \/ LoopPass(call)
        \/ Settle(call)

PageSpec == PageInit /\ [][PageNext]_vars

(* ------------------------------- claims -------------------------------- *)

\* a section was thrown away by backtracking and index 0 was filled again
backtracked == triesBySection[0] >= 2

\* C1: when makeTrack(n) returns for a positive integer n, the returned track
\* holds exactly n sections.
C1_ReturnsExactlyRequested ==
    (pc = "done" /\ isPositiveInteger(requestedSections))
        => Len(sections) * Denominator = requestedSections

C1_Witness ==
    /\ pc = "done"
    /\ isPositiveInteger(requestedSections)
    /\ Len(sections) = MaxSections
    /\ backtracked

\* C2: in every state each adjacent pair of accepted sections is continuous
\* (the end point of section i's center is the start point of section i+1's),
\* and so is the candidate with the last accepted section.
C2_Continuity ==
    /\ \A i \in 1..(Len(sections) - 1) :
          get(sections[i].center, 1) = get(sections[i + 1].center, 0)
    /\ (nextSection # <<>> /\ sections # <<>>)
          => get(sections[Len(sections)].center, 1) = get(nextSection[1].center, 0)

C2_Witness ==
    /\ Len(sections) >= 2
    /\ backtracked
    /\ get(sections[1].center, 0) # get(sections[1].center, 1)

\* C3: hasAnySelfIntersections over all the curves of the accepted track is
\* false in every state.
C3_NoIllegalIntersections ==
    ~hasAnySelfIntersections(getAllCurves(sections), <<>>)

\* C4: a requested count that is not a positive integer makes makeTrack fail
\* at once, with no section generated and no snapshot emitted.
C4_InvalidCountFails ==
    (pc # "idle" /\ ~isPositiveInteger(requestedSections))
        => (pc = "failed" /\ sections = <<>> /\ lastEmitted = <<>>)

\* C5: every run of makeTrack(n), n a positive integer, eventually returns.
C5_Terminates ==
    (pc = "loop" /\ isPositiveInteger(requestedSections)) ~> (pc = "done")

\* C6: the content of a payload put on 'sectionsSoFar' is never changed by a
\* later step of the builder.
C6_SnapshotsAreReadOnly ==
    /\ liveEmitted # <<>> => sections = liveEmitted[1]
    /\ lastEmitted # <<>> => view(lastEmitted[1], sections) = lastEmitted[1].track

\* C7: when makeTrack returns, the returned track is the content of the last
\* snapshot emitted.
C7_ReturnedIsLastSnapshot ==
    pc = "done" => (lastEmitted # <<>> /\ lastEmitted[1].track = sections)

C7_Witness ==
    /\ pc = "done"
    /\ Len(sections) >= 2
    /\ backtracked
    /\ triesBySection[1] >= 2

\* C8: the step that generates a candidate emits exactly one snapshot, the
\* accepted track followed by the candidate, and leaves the counters and the
\* track alone; the step that counts and checks the candidate comes after it,
\* emits nothing, and the last snapshot is then still that candidate's.
C8_CandidateShownBeforeCounted ==
    [][ /\ (nextSection = <<>> /\ nextSection' # <<>>)
            => /\ emittedNow' = << Payload(FALSE, Append(sections, nextSection'[1])) >>
               /\ lastEmitted' = emittedNow'
               /\ sections' = sections
               /\ triesBySection' = triesBySection
        /\ nextSection # <<>>
            => /\ lastEmitted = << Payload(FALSE, Append(sections, nextSection[1])) >>
               /\ emittedNow' = <<>>
               /\ lastEmitted' = lastEmitted
               /\ nextSection' = <<>>
               /\ triesBySection' =
                     [triesBySection EXCEPT
                         ![Len(sections)] = IF @ <= 0 THEN 1 ELSE @ + 1]
               /\ sections' \in { sections, Append(sections, nextSection[1]) }
      ]_vars

C8_Witness ==
    /\ pc = "check"
    /\ sections # <<>>
    /\ triesBySection[Len(sections)] >= 1
    /\ emittedNow = << Payload(FALSE, Append(sections, nextSection[1])) >>

\* C9: for an index i >= 1 and one predecessor at index i-1, at most
\* maximumTriesPerSection candidates are tried at index i.
C9_AtMostMaximumTries ==
    \A i \in 1..MaxSections : candidatesTried[i] <= maximumTriesPerSection

\* the gap after each curve of a loop of curves: to the next curve, and from
\* the last curve back to the first
gapExceedsAfter(outline, i) ==
    LET following == outline[(i % Len(outline)) + 1]
        dx == outline[i].p3.x - following.p0.x
        dy == outline[i].p3.y - following.p0.y
    IN  dx * dx + dy * dy > maximumAllowedOutlineGap * maximumAllowedOutlineGap

\* C10: on a list of curves hasGapsInOutline returns true exactly when the
\* gap after some curve (the wraparound gap after the last one included)
\* exceeds the maximum allowed outline gap, and false otherwise.
C10_GapsExactlyWhenSomeGapExceeds ==
    (pc = "returned" /\ curves # <<>>)
        => gapResult = IF \E i \in 1..Len(curves) : gapExceedsAfter(curves, i)
                       THEN "true" ELSE "false"

C10_Witness ==
    /\ pc = "returned"
    /\ Len(curves) >= 2
    /\ gapResult = "true"
    /\ \A i \in 1..(Len(curves) - 1) : ~gapExceedsAfter(curves, i)

\* the pass got an outline from the kernel
outlineReturned ==
    /\ result # <<>>
    /\ ~args[1].mostlyEnclosed
    /\ ~args[1].centerLoops
    /\ ~args[1].outlineThrows

\* the outline has exactly two end caps and the first is not its first curve
misplacedEndCap ==
    /\ Len(endCapIndexes(args[1].outline)) = 2
    /\ ~args[1].outline[1].cap

\* C11: when the kernel's outline operation throws for a candidate center
\* curve, the pass is rejected and retried; the failure does not leave
\* getRandomTrackSection.
C11_OutlineFailureRetried ==
    (/\ result # <<>>
     /\ ~args[1].mostlyEnclosed
     /\ ~args[1].centerLoops
     /\ args[1].outlineThrows)
        => (result[1].outcome = "retry" /\ pc = "retry")

\* C12: whenever the outline has exactly two end caps and the first is not at
\* index 0, getRandomTrackSection aborts with an error and does not retry,
\* whatever the proximity check and the gap check say.
C12_MisplacedEndCapAborts ==
    (outlineReturned /\ misplacedEndCap) => pc = "thrown"

\* C12, amended: with exactly two end caps and the first not at index 0, the
\* pass aborts with an error when it passes the end-cap proximity check and
\* the gap check, and is retried when it fails one of them.
C12_MisplacedEndCapAbortsAfterChecks ==
    (outlineReturned /\ misplacedEndCap)
        => IF args[1].capTooClose \/ args[1].gaps
           THEN pc = "retry"
           ELSE pc = "thrown" /\ result[1].outcome = "assumptions incorrect"

C12_Witness ==
    /\ outlineReturned
    /\ misplacedEndCap
    /\ ~args[1].capTooClose
    /\ ~args[1].gaps
    /\ args[1].edgesIntersect
    /\ pc = "thrown"

\* the curves of a list
members(list) == { list[i] : i \in 1..Len(list) }

blockedRays ==
    { line \in 1..numberOfLines :
        \E i \in 1..Len(args[1]) : lineIntersects(args[1][i], line) }

\* C13: isMostlyEnclosed reports a point as mostly enclosed once 6 or more of
\* the 10 rays intersect an existing center curve, and never with zero
\* existing sections.
C13_EnclosedFromSixRays ==
    pc = "returned" =>
        /\ Cardinality(blockedRays) >= 6 => result[1]
        /\ args[1] = <<>> => ~result[1]

\* C13, amended: isMostlyEnclosed reports a point as mostly enclosed exactly
\* when 7 or more of the 10 rays intersect an existing center curve (more
\* than 60% of them), and never with zero existing sections.
C13_EnclosedFromSevenRays ==
    pc = "returned" =>
        /\ result[1] <=> Cardinality(blockedRays) >= 7
        /\ args[1] = <<>> => ~result[1]

C13_Witness ==
    /\ pc = "returned"
    /\ Len(args[1]) = MaxEnclosing
    /\ Cardinality(blockedRays) = 7
    /\ \A i \in 1..Len(args[1]) : args[1][i].count < 7
    /\ result[1]

hasNaN(point) == point.x.kind = "NaN" \/ point.y.kind = "NaN"

\* C14: scaleLength on a zero-length vector ends in an error and returns no
\* point with NaN coordinates; randomPointAlongEndOfCenterLineTangent never
\* yields a NaN point when the end tangent is the zero vector.
C14_ZeroVectorIsAnError ==
    (pc \in { "returned", "thrown" } /\ args[2] = Point(0, 0)) =>
        /\ pc = "thrown"
        /\ \A i \in 1..Len(result) : ~hasNaN(result[i])

\* C15: hasAnySelfIntersections(newCurves, existingCurves) is true whenever
\* some curve of newCurves, the last one included, intersects some curve of
\* existingCurves away from the curve ends.
C15_EveryNewExistingPairExamined ==
    pc = "returned" =>
        ((\E i \in 1..Len(args[1]), j \in 1..Len(args[2]) :
              intersectsAwayFromEnds(args[1][i], args[2][j]))
            => result[1])

\* C16: hasAnySelfIntersections(newCurves) is true whenever some curve of
\* newCurves crosses itself, the last curve of the list and the only curve of
\* a one-curve list included.
C16_EveryNewCurveSelfChecked ==
    pc = "returned" =>
        ((\E i \in 1..Len(args[1]) : selfintersects(args[1][i])) => result[1])

\* the loop is about to take its backtracking branch (lines 112, 115)
backtrackingDue ==
    /\ pc = "loop"
    /\ loopContinues(Len(sections), requestedSections)
    /\ exceeds(triesBySection[Len(sections)], maximumTriesPerSection)

\* C17: the backtracking step removes exactly the last accepted section, sets
\* the counter of the current index i to 0, increases the counter of index
\* i-1 by exactly 1, emits one snapshot of the shortened track, generates no
\* candidate, and leaves the other sections and the other counters unchanged.
C17_BacktrackingStepFrame ==
    [][ backtrackingDue =>
          LET i == Len(sections) IN
              /\ i >= 1
              /\ sections' = SubSeq(sections, 1, i - 1)
              /\ triesBySection'[i] = 0
              /\ triesBySection[i - 1] >= 0
              /\ triesBySection'[i - 1] = triesBySection[i - 1] + 1
              /\ \A j \in Indexes \ { i, i - 1 } :
                    triesBySection'[j] = triesBySection[j]
              /\ Len(emittedNow') = 1
              /\ emittedNow'[1].track = sections'
              /\ nextSection' = <<>>
              /\ \A j \in Indexes : candidatesTried'[j] <= candidatesTried[j]
      ]_vars

\* the attempt counter of a slot before it is counted, 0 for an unset slot
triesSoFar(tries) == IF tries = Undefined THEN 0 ELSE tries

\* C18: when the intersection check rejects a candidate, the accepted track
\* is unchanged and only the attempt counter of the current index has grown,
\* by 1; when the candidate is accepted, it is appended at the tail and the
\* earlier sections keep their places.
C18_RejectKeepsTrackAcceptAppends ==
    [][ pc = "check" =>
          LET i == Len(sections) IN
              IF intersectsTrack(nextSection[1], sections)
              THEN /\ sections' = sections
                   /\ triesSoFar(triesBySection[i]) >= 0
                   /\ triesBySection'[i] = triesSoFar(triesBySection[i]) + 1
                   /\ \A j \in Indexes \ { i } :
                         triesBySection'[j] = triesBySection[j]
              ELSE /\ Len(sections') = i + 1
                   /\ sections'[i + 1] = nextSection[1]
                   /\ \A j \in 1..i : sections'[j] = sections[j]
      ]_vars

C18_Witness ==
    /\ pc = "loop"
    /\ Len(sections) >= 1
    /\ triesBySection[Len(sections)] >= 2
    /\ lastEmitted # <<>>
    /\ ~lastEmitted[1].live
    /\ Len(lastEmitted[1].track) = Len(sections) + 1
    /\ backtracked

\* C20: once makeTrack has built its first section the track always holds at
\* least one section: no state of the loop and no emitted snapshot is the
\* empty track.
C20_TrackNeverEmpty ==
    pc # "idle" =>
        /\ sections # <<>>
        /\ emittedNow # <<>> => emittedNow[1].track # <<>>

\* C21: the backtracking step is taken only at an index i >= 1, on a track
\* that is not empty, and the counter it increases is that of index i-1 >= 0
\* and holds a number: slot -1 is never written and no counter is ever NaN.
C21_BacktrackingOnlyAboveIndexZero ==
    /\ backtrackingDue =>
          /\ Len(sections) >= 1
          /\ triesBySection[Len(sections) - 1] >= 0
    /\ triesBySection[0 - 1] = Undefined
    /\ \A i \in Indexes : triesBySection[i] # NaN

\* a counter that has not been used since it was last reset
fresh(tries) == tries = Undefined \/ tries = 0

\* C22: in every state of makeTrack the attempt counter of every index above
\* the current track length is unset or 0, and whenever a candidate is
\* accepted the counter of the index after it is unset or 0.
C22_CountersAboveTrackAreFresh ==
    /\ [](pc # "idle" =>
            \A j \in Indexes : j > Len(sections) => fresh(triesBySection[j]))
    /\ [][ (pc = "check" /\ Len(sections') = Len(sections) + 1)
              => fresh(triesBySection'[Len(sections')]) ]_vars

C22_Witness ==
    /\ pc = "loop"
    /\ backtracked
    /\ Len(sections) = 1
    /\ triesBySection[1] = 0
    /\ lastEmitted # <<>>
    /\ ~lastEmitted[1].live
    /\ lastEmitted[1].track = sections

\* the calls of makeTrack made so far
started == { call \in Calls : calls[call].pc # "idle" }

\* C23: once refresh has been triggered again while an earlier call of
\* makeTrack is still running, the canvas shows only draws of the newest
\* call, and when all calls have returned it shows the newest call's
\* returned track.
C23_OnlyNewestCallIsDrawn ==
    started # {} =>
        LET newest == CHOOSE call \in started : \A other \in started : other <= call
        IN  /\ canvas # <<>>
            /\ canvas[1].call = newest
            /\ (\A call \in started : calls[call].pc = "returned")
                  => canvas[1] = Final(newest)

====
